---- MODULE Spec2Model ----
(***************************************************************************)
(* A model of the client-side router of react-simple-router: the Router    *)
(* component (its state, its subscribing effect with the handler           *)
(* handleRouteChange, its scroll effect and its render), the Link click    *)
(* handler, and the browser objects they use (window.location,             *)
(* window.history, the popstate and hashchange listeners).                 *)
(*                                                                         *)
(* A JavaScript string is a sequence of one-character strings, so that     *)
(* endsWith, slice, split, includes and startsWith are computed the way    *)
(* the code computes them.                                                 *)
(***************************************************************************)
EXTENDS Integers, Sequences, FiniteSets, TLC

VARIABLES
    history,            \* window.history: the session history entries (URLs)
    index,              \* position of the current entry; window.location is history[index]
    events,             \* events the browser has fired and not yet delivered
    popstateListeners,  \* handler ids registered for 'popstate', in registration order
    hashchangeListeners,\* handler ids registered for 'hashchange'
    mounted,            \* whether the Router component is mounted
    children,           \* the Route children of the Router (the route table)
    currentRoute,       \* the state of useState: the snapshot of the last render
    updateQueue,        \* values passed to setCurrentRoute and not yet rendered
    effectPending,      \* the effects of the last render have not run yet
    handlers,           \* live handleRouteChange closures: id -> captured currentRoute
    effectHandler,      \* id of the handler the last run of the first effect made (0: none)
    fragmentDep,        \* the dependency [currentRoute.fragment] of the last run of the scroll effect
    rendered,           \* the element returned by the last render
    scrolledTo,         \* what the last run of the effects scrolled to
    lastRun,            \* record of the last run of handleRouteChange
    lastClick,          \* record of the last run of Link's handleClick
    probe               \* input and result of a function applied on its own

vars == <<history, index, events, popstateListeners, hashchangeListeners, mounted,
          children, currentRoute, updateQueue, effectPending, handlers, effectHandler,
          fragmentDep, rendered, scrolledTo, lastRun, lastClick, probe>>

routerVars == <<history, index, events, popstateListeners, hashchangeListeners, mounted,
                children, currentRoute, updateQueue, effectPending, handlers,
                effectHandler, fragmentDep, rendered, scrolledTo, lastRun, lastClick>>

----------------------------------------------------------------------------
(* JavaScript string methods *)

\* s.endsWith(suffix)
EndsWith(s, suffix) ==
    /\ Len(s) >= Len(suffix)
    /\ SubSeq(s, Len(s) - Len(suffix) + 1, Len(s)) = suffix

\* s.startsWith(prefix)
StartsWith(s, prefix) ==
    /\ Len(s) >= Len(prefix)
    /\ SubSeq(s, 1, Len(prefix)) = prefix

\* s.slice(0, -n)
SliceEnd(s, n) == IF Len(s) <= n THEN <<>> ELSE SubSeq(s, 1, Len(s) - n)

\* s.slice(n)
SliceFrom(s, n) == IF Len(s) <= n THEN <<>> ELSE SubSeq(s, n + 1, Len(s))

\* s.includes(sub)
Includes(s, sub) ==
    \E i \in 1..(Len(s) - Len(sub) + 1) : SubSeq(s, i, i + Len(sub) - 1) = sub

\* position of the first occurrence of the character c in s, 0 when there is none
RECURSIVE IndexOf(_, _, _)
IndexOf(s, c, from) ==
    IF from > Len(s) THEN 0
    ELSE IF s[from] = c THEN from
    ELSE IndexOf(s, c, from + 1)

\* s.split(c) for a one-character separator: the pieces between the separators,
\* empty pieces included
RECURSIVE Split(_, _)
Split(s, c) ==
    LET i == IndexOf(s, c, 1) IN
    IF i = 0 THEN <<s>>
    ELSE <<SubSeq(s, 1, i - 1)>> \o Split(SliceFrom(s, i), c)

\* parts.filter(Boolean): the non-empty strings of parts
FilterBoolean(parts) == SelectSeq(parts, LAMBDA p : p # <<>>)

\* path.split('/').filter(Boolean)
Segments(path) == FilterBoolean(Split(path, "/"))

----------------------------------------------------------------------------
(* JavaScript values *)

\* undefined, where a string is expected
Undefined == <<"undefined">>

\* {} : an object with no own property
EmptyObject == [k \in {} |-> <<>>]

\* undefined, where an object is expected
UndefinedObject == [k \in {Undefined} |-> Undefined]

\* obj[key] = value on an object given as a function from its own keys
SetProperty(obj, key, value) ==
    [k \in (DOMAIN obj) \cup {key} |-> IF k = key THEN value ELSE obj[k]]

\* the property names every object literal inherits from Object.prototype, of
\* which the model spells out these
ObjectPrototypeKeys ==
    { <<"v","a","l","u","e","O","f">>,
      <<"t","o","S","t","r","i","n","g">> }

\* the values a query object holds: a string, an array of values, or a value
\* inherited from Object.prototype (a function)
StringValue(s) == [kind |-> "string", str |-> s, items |-> <<>>]
ArrayValue(items) == [kind |-> "array", str |-> <<>>, items |-> items]
InheritedValue(key) == [kind |-> "inherited", str |-> key, items |-> <<>>]

----------------------------------------------------------------------------
(* handleRouteChange: the path *)

\* SanitizePath that strips nothing
SanitizePathKeepsSlash(currentPath) == currentPath

\* the sanitized path: the path without its last character when it ends with
\* '/' and is not '/'
SanitizePath(currentPath) ==
    IF EndsWith(currentPath, <<"/">>) /\ currentPath # <<"/">>
    THEN SliceEnd(currentPath, 1)
    ELSE currentPath

----------------------------------------------------------------------------
(* handleRouteChange: the predicate given to find *)

\* path.includes('/:')
IsDynamic(path) == Includes(path, <<"/", ":">>)

\* the dynamic-segment branch without its comparison of the lengths
DynamicMatchesAnyLength(path, sanitizedPath) ==
    \A i \in 1..Len(Segments(path)) :
        \/ StartsWith(Segments(path)[i], <<":">>)
        \/ /\ i <= Len(Segments(sanitizedPath))
           /\ Segments(path)[i] = Segments(sanitizedPath)[i]

\* the dynamic-segment branch
DynamicMatches(path, sanitizedPath) ==
    LET pathParts == Segments(path)
        sanitizedParts == Segments(sanitizedPath)
    IN  /\ Len(pathParts) = Len(sanitizedParts)
        /\ \A i \in 1..Len(pathParts) :
              \/ StartsWith(pathParts[i], <<":">>)
              \/ pathParts[i] = sanitizedParts[i]

\* the catch-all branch without its test of the character after the base
CatchAllMatchesPrefix(path, sanitizedPath) ==
    StartsWith(sanitizedPath, SliceEnd(path, 2))

\* the catch-all branch
CatchAllMatches(path, sanitizedPath) ==
    LET basePath == SliceEnd(path, 2)
    IN  /\ StartsWith(sanitizedPath, basePath)
        /\ \/ sanitizedPath = basePath
           \/ /\ Len(sanitizedPath) > Len(basePath)
              /\ sanitizedPath[Len(basePath) + 1] = "/"

\* an exact branch that compares the path of the Route as it is written
ExactMatchesVerbatim(path, sanitizedPath) == path = sanitizedPath

\* the exact branch
ExactMatches(path, sanitizedPath) ==
    IF EndsWith(path, <<"/">>)
    THEN SliceEnd(path, 1) = sanitizedPath
    ELSE path = sanitizedPath

\* the whole predicate: whether the Route with this path matches
RouteMatches(path, sanitizedPath) ==
    IF path = <<"/">> THEN sanitizedPath = <<"/">>
    ELSE IF IsDynamic(path) THEN DynamicMatches(path, sanitizedPath)
    ELSE IF EndsWith(path, <<"/", "*">>) THEN CatchAllMatches(path, sanitizedPath)
    ELSE ExactMatches(path, sanitizedPath)

\* Array.prototype.find over the routes: the index of the first Route whose
\* path matches, 0 when find returns undefined
RECURSIVE FindFrom(_, _, _)
FindFrom(routes, sanitizedPath, i) ==
    IF i > Len(routes) THEN 0
    ELSE IF RouteMatches(routes[i].path, sanitizedPath) THEN i
    ELSE FindFrom(routes, sanitizedPath, i + 1)

\* a find that returns the last Route whose path matches
FindLastRoute(routes, sanitizedPath) ==
    IF \E i \in 1..Len(routes) : RouteMatches(routes[i].path, sanitizedPath)
    THEN CHOOSE i \in 1..Len(routes) :
            /\ RouteMatches(routes[i].path, sanitizedPath)
            /\ \A j \in (i + 1)..Len(routes) : ~RouteMatches(routes[j].path, sanitizedPath)
    ELSE 0

FindRoute(routes, sanitizedPath) == FindFrom(routes, sanitizedPath, 1)

----------------------------------------------------------------------------
(* handleRouteChange: the dynamic parameters *)

\* pathParts.forEach: each ':name' part assigns dynamicParams[name]
RECURSIVE AssignParams(_, _, _, _)
AssignParams(pathParts, sanitizedParts, i, dynamicParams) ==
    IF i > Len(pathParts) THEN dynamicParams
    ELSE AssignParams(pathParts, sanitizedParts, i + 1,
            IF StartsWith(pathParts[i], <<":">>)
            THEN SetProperty(dynamicParams, SliceFrom(pathParts[i], 1),
                             IF i <= Len(sanitizedParts) THEN sanitizedParts[i] ELSE Undefined)
            ELSE dynamicParams)

\* an extraction that gives no parameter
NoDynamicParams(path, sanitizedPath) == EmptyObject

DynamicParams(path, sanitizedPath) ==
    IF IsDynamic(path)
    THEN AssignParams(Segments(path), Segments(sanitizedPath), 1, EmptyObject)
    ELSE EmptyObject

----------------------------------------------------------------------------
(* handleRouteChange: the query object *)

\* the bytes '%XX' stands for, of which the model spells out these
PercentTable ==
    [h \in {<<"2","0">>, <<"2","6">>, <<"3","D">>} |->
        IF h = <<"2","0">> THEN " " ELSE IF h = <<"2","6">> THEN "&" ELSE "="]

\* the decoding URLSearchParams applies to a name or a value: '+' is a space,
\* '%XX' is the byte XX, anything else stands for itself
RECURSIVE DecodeComponent(_)
DecodeComponent(s) ==
    IF s = <<>> THEN <<>>
    ELSE IF s[1] = "+" THEN <<" ">> \o DecodeComponent(SliceFrom(s, 1))
    ELSE IF s[1] = "%" /\ Len(s) >= 3 /\ SubSeq(s, 2, 3) \in DOMAIN PercentTable
         THEN <<PercentTable[SubSeq(s, 2, 3)]>> \o DecodeComponent(SliceFrom(s, 3))
    ELSE <<s[1]>> \o DecodeComponent(SliceFrom(s, 1))

\* one 'name=value' piece of a query string as an entry
ParseEntry(piece) ==
    LET i == IndexOf(piece, "=", 1) IN
    IF i = 0 THEN [key |-> DecodeComponent(piece), value |-> <<>>]
    ELSE [key |-> DecodeComponent(SubSeq(piece, 1, i - 1)),
          value |-> DecodeComponent(SliceFrom(piece, i))]

RECURSIVE ParseEntries(_)
ParseEntries(pieces) ==
    IF pieces = <<>> THEN <<>>
    ELSE <<ParseEntry(Head(pieces))>> \o ParseEntries(Tail(pieces))

\* new URLSearchParams(currentSearch).entries(): a leading '?' is dropped, the
\* rest is cut at '&', empty pieces are skipped, each piece is cut at its first '='
SearchEntries(currentSearch) ==
    LET body == IF StartsWith(currentSearch, <<"?">>) THEN SliceFrom(currentSearch, 1)
                ELSE currentSearch
    IN  ParseEntries(FilterBoolean(Split(body, "&")))

\* queryObject[key] as the loop reads it: the own property, else the property
\* inherited from Object.prototype, else undefined
GetProperty(queryObject, key) ==
    IF key \in DOMAIN queryObject THEN queryObject[key]
    ELSE IF key \in ObjectPrototypeKeys THEN InheritedValue(key)
    ELSE [kind |-> "undefined", str |-> <<>>, items |-> <<>>]

\* one turn of the loop over the entries
AddEntry(queryObject, key, value) ==
    LET old == GetProperty(queryObject, key) IN
    IF old.kind # "undefined"
    THEN SetProperty(queryObject, key,
            IF old.kind = "array"
            THEN ArrayValue(Append(old.items, StringValue(value)))
            ELSE ArrayValue(<<old, StringValue(value)>>))
    ELSE SetProperty(queryObject, key, StringValue(value))

\* the loop over the entries, from queryObject = {}
RECURSIVE AddEntries(_, _)
AddEntries(queryObject, entries) ==
    IF entries = <<>> THEN queryObject
    ELSE AddEntries(AddEntry(queryObject, Head(entries).key, Head(entries).value),
                    Tail(entries))

QueryObject(entries) == AddEntries(EmptyObject, entries)

\* the fragment: the hash without its leading '#'
ParsedFragment(currentHash) ==
    IF StartsWith(currentHash, <<"#">>) THEN SliceFrom(currentHash, 1) ELSE currentHash

----------------------------------------------------------------------------
(* URLs *)

\* The URL a string names, as window.location shows it: the hash is the part from
\* the first '#' and the search the part from the first '?' before it, each empty
\* when it has no character after its mark. The strings of the model are
\* absolute paths of the page's origin.
ResolveUrl(to) ==
    LET h == IndexOf(to, "#", 1)
        beforeHash == IF h = 0 THEN to ELSE SubSeq(to, 1, h - 1)
        rawHash == IF h = 0 THEN <<>> ELSE SliceFrom(to, h - 1)
        q == IndexOf(beforeHash, "?", 1)
        rawSearch == IF q = 0 THEN <<>> ELSE SliceFrom(beforeHash, q - 1)
    IN  [pathname |-> IF q = 0 THEN beforeHash ELSE SubSeq(beforeHash, 1, q - 1),
         search |-> IF Len(rawSearch) <= 1 THEN <<>> ELSE rawSearch,
         hash |-> IF Len(rawHash) <= 1 THEN <<>> ELSE rawHash]

----------------------------------------------------------------------------
(* The Router's state and its render *)

\* useState({}): the state before the first match
InitialRoute ==
    [route |-> Undefined, component |-> "undefined", path |-> UndefinedObject,
     query |-> UndefinedObject, fragment |-> Undefined]

\* the component rendered when currentRoute has none
NotFound == "NotFound"

\* the element the Router returns
RenderElement(route) ==
    [component |-> IF route.component = "undefined" THEN NotFound ELSE route.component,
     path |-> IF route.path = UndefinedObject THEN EmptyObject ELSE route.path,
     query |-> IF route.query = UndefinedObject THEN EmptyObject ELSE route.query,
     fragment |-> IF route.fragment = Undefined \/ route.fragment = <<>> THEN <<>>
                  ELSE route.fragment]

\* nothing is rendered while the Router is not mounted
NoElement == [component |-> "none", path |-> EmptyObject, query |-> EmptyObject,
              fragment |-> <<>>]

----------------------------------------------------------------------------
(* handleRouteChange *)

\* an object whose fragment is the hash as the location has it
SnapshotWithHash(route, sanitizedPath, currentSearch, currentHash) ==
    [route |-> route.path,
     component |-> route.component,
     path |-> EmptyObject,
     query |-> EmptyObject,
     fragment |-> currentHash]

\* the object given to setCurrentRoute
Snapshot(route, sanitizedPath, currentSearch, currentHash) ==
    [route |-> route.path,
     component |-> route.component,
     path |-> DynamicParams(route.path, sanitizedPath),
     query |-> QueryObject(SearchEntries(currentSearch)),
     fragment |-> ParsedFragment(currentHash)]

\* a condition that compares the fragments only
DiffersFragmentOnly(route, parsedFragment, captured) ==
    parsedFragment # captured.fragment

\* a condition that holds always
DiffersAlways(route, parsedFragment, captured) == TRUE

\* a condition that compares the routes only
DiffersRouteOnly(route, parsedFragment, captured) == route.path # captured.route

\* the condition under which the handler calls setCurrentRoute
Differs(route, parsedFragment, captured) ==
    route.path # captured.route \/ parsedFragment # captured.fragment

\* what the handler has done when it returns: whether it called replaceState
\* and the location it left, what find returned, whether it called
\* setCurrentRoute and with what
Outcome(url, routes, sanitizedPath, matched, sets) ==
    [rewrites |-> sanitizedPath # url.pathname,
     url |-> IF sanitizedPath # url.pathname
             THEN ResolveUrl(sanitizedPath \o url.search \o url.hash)
             ELSE url,
     sanitizedPath |-> sanitizedPath,
     matched |-> matched,
     sets |-> sets,
     value |-> IF sets
               THEN Snapshot(routes[matched], sanitizedPath, url.search, url.hash)
               ELSE InitialRoute]

\* from `if (matchedRoute)`: the comparison with the captured currentRoute
Decide(url, captured, routes, sanitizedPath, matched) ==
    Outcome(url, routes, sanitizedPath, matched,
            matched # 0 /\ Differs(routes[matched], ParsedFragment(url.hash), captured))

\* from the call of find
Match(url, captured, routes, sanitizedPath) ==
    Decide(url, captured, routes, sanitizedPath, FindRoute(routes, sanitizedPath))

\* One run of the handler on the location `url`, by a closure that captured
\* `captured` as currentRoute and `routes` as children.
HandleRouteChange(url, captured, routes) ==
    Match(url, captured, routes, SanitizePath(url.pathname))

----------------------------------------------------------------------------
(* The inputs of the model *)

\* the Routes given to the Router: those of App, and one Route of each other
\* kind of path the Router documents
Routes ==
    << [path |-> <<"/">>, component |-> "Home"],
       [path |-> <<"/","l","o","g","i","n">>, component |-> "Login"],
       [path |-> <<"/","u","s","e","r","s","/",":","i","d">>, component |-> "User"],
       [path |-> <<"/","d","o","c","s","/","*">>, component |-> "Docs"] >>

\* the URLs the page is loaded at
InitialUrls ==
    { <<"/","#","e","n","d">>,
      <<"/","l","o","g","i","n","/","?","a","=","1","#","t","o","p">>,
      <<"/","u","s","e","r","s","/","1">> }

\* the `to` of the Links of the page: that of App, and others
LinkTargets ==
    { <<"/","l","o","g","i","n">>,
      <<"/","m","i","s","s","i","n","g">>,
      <<"/","u","s","e","r","s","/","2">>,
      <<"/","u","s","e","r","s","/","1","#","t","o","p">> }

\* the ids of the elements of the document
ElementIds == { <<"t","o","p">> }

\* bounds of the model
MaxHistory == 2
MaxUpdates == 2
MaxEvents == 1

----------------------------------------------------------------------------
(* window.history, window.location and the event listeners *)

\* before any run of the handler
NoRun ==
    [ran |-> FALSE, read |-> ResolveUrl(<<>>), url |-> ResolveUrl(<<>>),
     rewrites |-> FALSE, entries |-> 0, sanitizedPath |-> <<>>, matched |-> 0,
     sets |-> FALSE, value |-> InitialRoute, captured |-> InitialRoute,
     unchanged |-> FALSE, locationChanged |-> FALSE, nth |-> 0]

\* before any click
NoClick ==
    [clicked |-> FALSE, to |-> <<>>, prevented |-> FALSE, pushed |-> 0, runs |-> 0,
     read |-> ResolveUrl(<<>>)]

\* What the code of one step reads and writes while it runs.
World ==
    [history |-> history, index |-> index, updateQueue |-> updateQueue,
     lastRun |-> lastRun, lastClick |-> NoClick, runs |-> 0]

\* the step leaves the browser and the update queue as w holds them
Commit(w) ==
    /\ history' = w.history
    /\ index' = w.index
    /\ updateQueue' = w.updateQueue
    /\ lastRun' = w.lastRun
    /\ lastClick' = w.lastClick

\* window.history.pushState(null, '', to): the entries after the current one are
\* dropped and the new one becomes the current one
PushState(w, to) ==
    [w EXCEPT !.history = Append(SubSeq(w.history, 1, w.index), ResolveUrl(to)),
              !.index = w.index + 1,
              !.lastRun.locationChanged = TRUE]

\* a replaceState that adds an entry, as pushState does
ReplaceStatePushes(w, url) ==
    [w EXCEPT !.history = Append(SubSeq(w.history, 1, w.index), url),
              !.index = w.index + 1]

\* window.history.replaceState(null, '', url): the current entry is replaced
ReplaceState(w, url) ==
    [w EXCEPT !.history[w.index] = url]

\* a handler that replaces the current entry by '/' whatever the path is
RewrittenToRoot(w, r) == ReplaceState(w, ResolveUrl(<<"/">>))

\* the call of replaceState the handler makes when the sanitized path differs
Rewritten(w, r) == IF r.rewrites THEN ReplaceState(w, r.url) ELSE w

\* the handler, entered in w0, returns in w with the outcome r: its call of
\* setCurrentRoute queues the value, and the run is recorded
Returned(w0, w, closure, r) ==
    [w EXCEPT
        !.updateQueue = IF r.sets THEN Append(w.updateQueue, r.value)
                        ELSE w.updateQueue,
        !.runs = w.runs + 1,
        !.lastRun = [ran |-> TRUE, read |-> w0.history[w0.index],
                     url |-> w.history[w.index],
                     rewrites |-> r.rewrites,
                     entries |-> Len(w.history) - Len(w0.history),
                     sanitizedPath |-> r.sanitizedPath, matched |-> r.matched,
                     sets |-> r.sets, value |-> r.value,
                     captured |-> closure.currentRoute,
                     unchanged |-> w0.lastRun.ran /\ ~w0.lastRun.locationChanged,
                     locationChanged |-> FALSE,
                     nth |-> w.runs + 1]]

\* the handler with the outcome r, run in w
Ran(w, closure, r) == Returned(w, Rewritten(w, r), closure, r)

\* one call of handleRouteChange by the closure `closure`
RunHandler(w, closure) ==
    Ran(w, closure,
        HandleRouteChange(w.history[w.index], closure.currentRoute, closure.children))

\* window.dispatchEvent, or the browser firing an event: the listeners run in
\* the order of their registration
RECURSIVE DispatchEvent(_, _)
DispatchEvent(w, listeners) ==
    IF listeners = <<>> THEN w
    ELSE DispatchEvent(RunHandler(w, handlers[Head(listeners)]), Tail(listeners))

\* target.addEventListener(type, handler): a handler is registered once
AddEventListener(listeners, id) ==
    IF \E i \in 1..Len(listeners) : listeners[i] = id THEN listeners
    ELSE Append(listeners, id)

\* target.removeEventListener(type, handler)
RemoveEventListener(listeners, id) == SelectSeq(listeners, LAMBDA h : h # id)

----------------------------------------------------------------------------
(* Link *)

\* the record of the click, once handleClick has returned
Clicked(w, to) ==
    [w EXCEPT !.lastClick =
        [clicked |-> TRUE, to |-> to, prevented |-> w.lastClick.prevented,
         pushed |-> w.lastClick.pushed, runs |-> w.runs,
         read |-> IF w.runs > 0 THEN w.lastRun.read ELSE ResolveUrl(<<>>)]]

\* e.preventDefault()
PreventDefault(w) == [w EXCEPT !.lastClick.prevented = TRUE]

\* pushState as handleClick calls it
ClickPush(w, to) ==
    [PushState(w, to) EXCEPT !.lastClick.pushed = w.lastClick.pushed + 1]

\* a handleClick that dispatches the event before it calls pushState
HandleClickDispatchFirst(w, to) ==
    ClickPush(DispatchEvent(PreventDefault(w), popstateListeners), to)

\* handleClick of a Link to `to`: preventDefault, pushState, then the popstate
\* event, whose listeners run before dispatchEvent returns
HandleClick(w, to) ==
    DispatchEvent(ClickPush(PreventDefault(w), to), popstateListeners)

Click(to) ==
    /\ index < MaxHistory
    /\ Len(updateQueue) < MaxUpdates
    /\ Commit(Clicked(HandleClick(World, to), to))
    /\ UNCHANGED <<events, popstateListeners, hashchangeListeners, mounted, children,
                   currentRoute, effectPending, handlers, effectHandler, fragmentDep,
                   rendered, scrolledTo, probe>>

----------------------------------------------------------------------------
(* The browser: back and forward, and the delivery of hashchange *)

\* the browser makes the entry at `to` the current one
MoveTo(w, to) == [w EXCEPT !.index = to, !.lastRun.locationChanged = TRUE]

\* The user goes back (-1) or forward (1): the location becomes that of the
\* entry, popstate is fired, and hashchange is queued when the fragment differs.
Traverse(delta) ==
    /\ index + delta \in 1..Len(history)
    /\ Len(updateQueue) < MaxUpdates
    /\ IF history[index + delta].hash # history[index].hash
       THEN /\ Len(events) < MaxEvents
            /\ events' = Append(events, "hashchange")
       ELSE events' = events
    /\ Commit(DispatchEvent(MoveTo(World, index + delta), popstateListeners))
    /\ UNCHANGED <<popstateListeners, hashchangeListeners, mounted, children,
                   currentRoute, effectPending, handlers, effectHandler, fragmentDep,
                   rendered, scrolledTo, probe>>

\* the browser delivers a queued hashchange
Deliver ==
    /\ events # <<>>
    /\ Len(updateQueue) < MaxUpdates
    /\ events' = Tail(events)
    /\ Commit(DispatchEvent(World, hashchangeListeners))
    /\ UNCHANGED <<popstateListeners, hashchangeListeners, mounted, children,
                   currentRoute, effectPending, handlers, effectHandler, fragmentDep,
                   rendered, scrolledTo, probe>>

----------------------------------------------------------------------------
(* The Router component *)

\* the dependency of the scroll effect before its first run
NoDep == <<"none">>

\* the smallest id no live handler has
FreshId == CHOOSE i \in 1..(Cardinality(DOMAIN handlers) + 1) : i \notin DOMAIN handlers

\* a cleanup that removes no listener
CleanupNothing(listeners, id) == listeners

\* the cleanup of the first effect: the handler it registered is removed
Cleanup(listeners, id) == RemoveEventListener(listeners, id)

\* a scroll effect that scrolls without looking its element up
ScrollEffectNoLookup(route) ==
    IF route.fragment # Undefined /\ route.fragment # <<>> THEN route.fragment
    ELSE Undefined

\* the scroll effect: the fragment it scrolls to, Undefined when it scrolls to none
ScrollEffect(route) ==
    IF route.fragment # Undefined /\ route.fragment # <<>> /\ route.fragment \in ElementIds
    THEN route.fragment
    ELSE Undefined

\* The Router is mounted: the first render, with the initial state.
Mount ==
    /\ ~mounted
    /\ mounted' = TRUE
    /\ children' = Routes
    /\ currentRoute' = InitialRoute
    /\ updateQueue' = <<>>
    /\ rendered' = RenderElement(InitialRoute)
    /\ effectPending' = TRUE
    /\ effectHandler' = 0
    /\ fragmentDep' = NoDep
    /\ scrolledTo' = Undefined
    /\ lastRun' = NoRun
    /\ UNCHANGED <<history, index, events, popstateListeners, hashchangeListeners,
                   handlers, probe>>
    /\ lastClick' = NoClick

\* The effects of the last render run. The first effect has [currentRoute,
\* children] as dependencies, and every render has a new one of them, so its
\* cleanup runs and it runs again: it makes a handler that captures the rendered
\* currentRoute, calls it and registers it. The scroll effect runs when the
\* fragment is not that of its last run.
FlushEffects ==
    /\ mounted
    /\ effectPending
    /\ Len(updateQueue) < MaxUpdates
    /\ Commit(RunHandler(World, [currentRoute |-> currentRoute, children |-> children]))
    /\ handlers' = [h \in ((DOMAIN handlers) \ {effectHandler}) \cup {FreshId} |->
                        IF h = FreshId
                        THEN [currentRoute |-> currentRoute, children |-> children]
                        ELSE handlers[h]]
    /\ popstateListeners' =
          AddEventListener(Cleanup(popstateListeners, effectHandler), FreshId)
    /\ hashchangeListeners' =
          AddEventListener(Cleanup(hashchangeListeners, effectHandler), FreshId)
    /\ effectHandler' = FreshId
    /\ IF currentRoute.fragment # fragmentDep
       THEN /\ scrolledTo' = ScrollEffect(currentRoute)
            /\ fragmentDep' = currentRoute.fragment
       ELSE /\ scrolledTo' = Undefined
            /\ UNCHANGED fragmentDep
    /\ effectPending' = FALSE
    /\ UNCHANGED <<events, mounted, children, currentRoute, rendered, probe>>

\* React renders the Router again with the state updates applied in order, the
\* last one giving the state.
Render ==
    /\ mounted
    /\ ~effectPending
    /\ updateQueue # <<>>
    /\ currentRoute' = updateQueue[Len(updateQueue)]
    /\ updateQueue' = <<>>
    /\ rendered' = RenderElement(updateQueue[Len(updateQueue)])
    /\ effectPending' = TRUE
    /\ UNCHANGED <<history, index, events, popstateListeners, hashchangeListeners,
                   mounted, children, handlers, effectHandler, fragmentDep, scrolledTo,
                   lastRun, probe>>
    /\ lastClick' = NoClick

\* The parent renders again and gives the Router new children elements for the
\* same Routes.
ParentRender ==
    /\ mounted
    /\ ~effectPending
    /\ updateQueue = <<>>
    /\ rendered' = RenderElement(currentRoute)
    /\ effectPending' = TRUE
    /\ UNCHANGED <<history, index, events, popstateListeners, hashchangeListeners,
                   mounted, children, currentRoute, updateQueue, handlers, effectHandler,
                   fragmentDep, scrolledTo, lastRun, probe>>
    /\ lastClick' = NoClick

\* The Router is unmounted: the cleanup of the first effect runs and the state is
\* dropped.
Unmount ==
    /\ mounted
    /\ mounted' = FALSE
    /\ popstateListeners' = Cleanup(popstateListeners, effectHandler)
    /\ hashchangeListeners' = Cleanup(hashchangeListeners, effectHandler)
    /\ handlers' = [h \in (DOMAIN handlers) \ {effectHandler} |-> handlers[h]]
    /\ effectHandler' = 0
    /\ currentRoute' = InitialRoute
    /\ updateQueue' = <<>>
    /\ effectPending' = FALSE
    /\ fragmentDep' = NoDep
    /\ rendered' = NoElement
    /\ scrolledTo' = Undefined
    /\ UNCHANGED <<history, index, events, children, lastRun, probe>>
    /\ lastClick' = NoClick

----------------------------------------------------------------------------
(* The specification of the router *)

\* no function is applied on its own
NoProbe ==
    [kind |-> "none", done |-> FALSE, routes |-> <<>>, path |-> <<>>, pattern |-> <<>>,
     segments |-> <<>>, values |-> EmptyObject, entries |-> <<>>, index |-> 0,
     matches |-> FALSE, matchesPath |-> FALSE, params |-> EmptyObject,
     query |-> EmptyObject, snapshot |-> InitialRoute]

\* the page is loaded at the URL u; the Router is not mounted yet
Loaded(u) ==
    /\ history = <<ResolveUrl(u)>>
    /\ index = 1
    /\ events = <<>>
    /\ popstateListeners = <<>>
    /\ hashchangeListeners = <<>>
    /\ mounted = FALSE
    /\ children = Routes
    /\ currentRoute = InitialRoute
    /\ updateQueue = <<>>
    /\ effectPending = FALSE
    /\ handlers = EmptyObject
    /\ effectHandler = 0
    /\ fragmentDep = NoDep
    /\ rendered = NoElement
    /\ scrolledTo = Undefined
    /\ lastRun = NoRun
    /\ lastClick = NoClick

Init ==
    /\ \E u \in InitialUrls : Loaded(u)
    /\ probe = NoProbe

Next ==
    \/ Mount
    \/ FlushEffects
    \/ Render
    \/ ParentRender
    \/ Unmount
    \/ \E to \in LinkTargets : Click(to)
    \/ \E delta \in {-1, 1} : Traverse(delta)
    \/ Deliver

Spec == Init /\ [][Next]_vars

----------------------------------------------------------------------------
(* The functions of the handler, applied on their own *)

\* bounds of the inputs
MaxRoutes == 2
MaxSegments == 2
MaxEntries == 3

SeqsUpTo(S, n) == UNION { [1..k -> S] : k \in 0..n }

\* paths of Routes, of every kind
Patterns ==
    { <<"/">>,
      <<"/","u","s","e","r","s","/",":","i","d">>,
      <<"/","u","s","e","r","s","/","m","e">>,
      <<"/","d","o","c","s","/","*">>,
      <<"/","*">>,
      <<"/","l","o","g","i","n","/">> }

\* sanitized paths
Paths ==
    { <<"/">>,
      <<"/","u","s","e","r","s","/","m","e">>,
      <<"/","u","s","e","r","s","/","4","2">>,
      <<"/","u","s","e","r","s","/","4","2","/","e","d","i","t">>,
      <<"/","d","o","c","s">>,
      <<"/","d","o","c","s","/","a","/","b">>,
      <<"/","d","o","c","u","m","e","n","t","a","t","i","o","n">>,
      <<"/","d","o","c","s","e","t">>,
      <<"/","l","o","g","i","n">> }

\* the segments a dynamic path is made of: a literal or a ':name'
Literal(text) == [dynamic |-> FALSE, text |-> text]
Named(name) == [dynamic |-> TRUE, text |-> name]
SegmentChoices ==
    { Literal(<<"u","s","e","r","s">>), Literal(<<"4","2">>),
      Named(<<"i","d">>), Named(<<"t","a","b">>) }
ParamNames == { <<"i","d">>, <<"t","a","b">> }
ParamValues == { <<"4","2">>, <<"m","e">>, <<"u","s","e","r","s">> }

\* the path of a Route with these segments
RECURSIVE PatternOf(_)
PatternOf(segments) ==
    IF segments = <<>> THEN <<>>
    ELSE <<"/">> \o (IF Head(segments).dynamic THEN <<":">> ELSE <<>>)
         \o Head(segments).text \o PatternOf(Tail(segments))

\* the path that has the value of each name in the place of its ':name'
RECURSIVE Substitute(_, _)
Substitute(segments, values) ==
    IF segments = <<>> THEN <<>>
    ELSE <<"/">> \o (IF Head(segments).dynamic THEN values[Head(segments).text]
                     ELSE Head(segments).text)
         \o Substitute(Tail(segments), values)

\* the names and values of the entries of a query string
QueryKeys ==
    { <<"c","o","l","o","r">>, <<"n","a","m","e">>, <<"v","a","l","u","e","O","f">> }
QueryValues == { <<"r","e","d">>, <<"b","l","u","e">> }

FindProbes ==
    { [NoProbe EXCEPT !.kind = "find", !.routes = t, !.path = p] :
        t \in { [i \in 1..Len(ps) |-> [path |-> ps[i], component |-> "View"]] :
                    ps \in SeqsUpTo(Patterns, MaxRoutes) },
        p \in Paths }

DynamicProbes ==
    { [NoProbe EXCEPT !.kind = "dynamic", !.segments = g, !.pattern = PatternOf(g),
                      !.values = v, !.path = p] :
        g \in { x \in SeqsUpTo(SegmentChoices, MaxSegments) :
                    \E i \in 1..Len(x) : x[i].dynamic },
        v \in [ParamNames -> ParamValues],
        p \in Paths }

CatchAllProbes ==
    { [NoProbe EXCEPT !.kind = "catchall", !.pattern = c, !.path = p] :
        c \in { x \in Patterns : x # <<"/">> /\ ~IsDynamic(x) /\ EndsWith(x, <<"/","*">>) },
        p \in Paths }

\* pathnames of locations, sanitized or not
Pathnames ==
    Paths \cup { <<"/","l","o","g","i","n","/">>,
                 <<"/","l","o","g","i","n","/","/">>,
                 <<"/","u","s","e","r","s","/","m","e","/">> }

ExactProbes ==
    { [NoProbe EXCEPT !.kind = "exact", !.pattern = c, !.path = p] :
        c \in { x \in Patterns \cup {<<"/","l","o","g","i","n">>} :
                    ~IsDynamic(x) /\ ~EndsWith(x, <<"/","*">>) },
        p \in Pathnames }

\* the components of the Routes of a table, by their place in it
Views == <<"View1", "View2", "View3">>

\* tables of Routes with a component each, and the pathname of a location
SnapshotProbes ==
    { [NoProbe EXCEPT !.kind = "snapshot", !.routes = t, !.path = p] :
        t \in { [i \in 1..Len(ps) |-> [path |-> ps[i], component |-> Views[i]]] :
                    ps \in SeqsUpTo(Patterns \cup {<<"/",":","t","a","b","/",":","i","d">>},
                                    MaxRoutes) },
        p \in Pathnames }

QueryProbes ==
    { [NoProbe EXCEPT !.kind = "query", !.entries = e] :
        e \in SeqsUpTo([key : QueryKeys, value : QueryValues], MaxEntries) }

\* find is applied to a table and a path
ApplyFind ==
    /\ probe.kind = "find" /\ ~probe.done
    /\ probe' = [probe EXCEPT !.done = TRUE,
                              !.index = FindRoute(probe.routes, probe.path)]
    /\ UNCHANGED routerVars

\* the predicate and the extraction of the parameters are applied to a dynamic
\* path and the path substituted from it, and the predicate to another path
ApplyDynamic ==
    /\ probe.kind = "dynamic" /\ ~probe.done
    /\ probe' = [probe EXCEPT
            !.done = TRUE,
            !.matches = RouteMatches(probe.pattern,
                                     Substitute(probe.segments, probe.values)),
            !.params = DynamicParams(probe.pattern,
                                     Substitute(probe.segments, probe.values)),
            !.matchesPath = RouteMatches(probe.pattern, probe.path)]
    /\ UNCHANGED routerVars

\* the predicate and the extraction of the parameters are applied to a catch-all
\* path and a path
ApplyCatchAll ==
    /\ probe.kind = "catchall" /\ ~probe.done
    /\ probe' = [probe EXCEPT
            !.done = TRUE,
            !.matches = RouteMatches(probe.pattern, probe.path),
            !.params = DynamicParams(probe.pattern, probe.path)]
    /\ UNCHANGED routerVars

\* the predicate is applied to the path '/' or an exact path and the sanitized
\* pathname of a location
ApplyExact ==
    /\ probe.kind = "exact" /\ ~probe.done
    /\ probe' = [probe EXCEPT
            !.done = TRUE,
            !.matches = RouteMatches(probe.pattern, SanitizePath(probe.path))]
    /\ UNCHANGED routerVars

\* the handler is run on a location by a closure that holds the initial state;
\* what it gives to setCurrentRoute, if it calls it, is kept
ApplySnapshot ==
    /\ probe.kind = "snapshot" /\ ~probe.done
    /\ probe' = [probe EXCEPT
            !.done = TRUE,
            !.snapshot = HandleRouteChange(ResolveUrl(probe.path), InitialRoute,
                                           probe.routes).value]
    /\ UNCHANGED routerVars

\* the loop that builds the query object is applied to entries
ApplyQuery ==
    /\ probe.kind = "query" /\ ~probe.done
    /\ probe' = [probe EXCEPT !.done = TRUE, !.query = QueryObject(probe.entries)]
    /\ UNCHANGED routerVars

FunctionInit ==
    /\ Loaded(<<"/">>)
    /\ probe \in FindProbes \cup DynamicProbes \cup CatchAllProbes \cup ExactProbes
                \cup SnapshotProbes \cup QueryProbes

FunctionNext ==
    \/ ApplyFind
    \/ ApplyDynamic
    \/ ApplyCatchAll
    \/ ApplyExact
    \/ ApplySnapshot
    \/ ApplyQuery

FunctionSpec == FunctionInit /\ [][FunctionNext]_vars

----------------------------------------------------------------------------
(* Properties *)

\* the current location
Location == history[index]

\* The last run of the handler read the current location, and everything it
\* caused has been rendered and its effects have run.
Settled ==
    /\ mounted
    /\ lastRun.ran
    /\ ~lastRun.locationChanged
    /\ updateQueue = <<>>
    /\ ~effectPending
    /\ events = <<>>

\* the index of the first Route whose path matches the current location
CurrentMatch == FindRoute(children, SanitizePath(Location.pathname))

\* the values of the entries with the key k, in their order
ValuesOf(entries, k) ==
    LET at == SelectSeq(entries, LAMBDA e : e.key = k)
    IN  [i \in 1..Len(at) |-> at[i].value]

\* C1: whenever the handler has processed the notification of the current
\* location and the sanitized path matches no Route, the not-found component is
\* rendered, with empty path parameters and an empty query, whatever was
\* matched before.
C1_NoMatchRendersNotFound ==
    (Settled /\ CurrentMatch = 0) =>
        /\ rendered.component = NotFound
        /\ rendered.path = EmptyObject
        /\ rendered.query = EmptyObject

\* C2: find returns the lowest index whose path matches the sanitized path,
\* whatever later Routes match too, and 0 when none matches.
C2_FirstMatchWins ==
    (probe.kind = "find" /\ probe.done) =>
        \/ /\ probe.index = 0
           /\ \A i \in 1..Len(probe.routes) :
                 ~RouteMatches(probe.routes[i].path, probe.path)
        \/ /\ probe.index \in 1..Len(probe.routes)
           /\ RouteMatches(probe.routes[probe.index].path, probe.path)
           /\ \A j \in 1..(probe.index - 1) :
                 ~RouteMatches(probe.routes[j].path, probe.path)

\* C2, its case: the first Route is returned and the second one matches too
C2_Witness ==
    /\ probe.kind = "find" /\ probe.done
    /\ Len(probe.routes) = 2
    /\ probe.index = 1
    /\ probe.routes[1].path # probe.routes[2].path
    /\ RouteMatches(probe.routes[2].path, probe.path)

\* C3: once the handler has processed the notification of a location that
\* matches a Route, the state (route, component, path parameters, query,
\* fragment) is the one derived from the current location.
C3_StateIsOfCurrentLocation ==
    (Settled /\ CurrentMatch # 0) =>
        currentRoute = Snapshot(children[CurrentMatch], SanitizePath(Location.pathname),
                                Location.search, Location.hash)

\* C4: the path substituted from a dynamic path matches it, and the parameters
\* are exactly its names, each with the value substituted for it; a path with
\* another number of non-empty segments does not match it.
C4_DynamicRoundTrip ==
    (probe.kind = "dynamic" /\ probe.done) =>
        /\ probe.matches
        /\ DOMAIN probe.params =
              { probe.segments[i].text :
                    i \in { j \in 1..Len(probe.segments) : probe.segments[j].dynamic } }
        /\ \A i \in 1..Len(probe.segments) :
              probe.segments[i].dynamic =>
                 probe.params[probe.segments[i].text] = probe.values[probe.segments[i].text]
        /\ Len(Segments(probe.path)) # Len(probe.segments) => ~probe.matchesPath

\* C4, its case: '/users/:id' with 42 for id, and '/users/42/edit'
C4_Witness ==
    /\ probe.kind = "dynamic" /\ probe.done
    /\ probe.pattern = <<"/","u","s","e","r","s","/",":","i","d">>
    /\ probe.matches
    /\ probe.params = [k \in {<<"i","d">>} |-> <<"4","2">>]
    /\ probe.path = <<"/","u","s","e","r","s","/","4","2","/","e","d","i","t">>
    /\ ~probe.matchesPath

\* C5: a catch-all path 'base/*' matches a sanitized path exactly when the
\* path is base or starts with base and '/', and the match has no parameters.
C5_CatchAll ==
    (probe.kind = "catchall" /\ probe.done) =>
        /\ probe.matches <=>
              \/ probe.path = SliceEnd(probe.pattern, 2)
              \/ StartsWith(probe.path, SliceEnd(probe.pattern, 2) \o <<"/">>)
        /\ probe.params = EmptyObject

\* C5, its case: '/docs/*' matches '/docs/a/b'
C5_Witness ==
    /\ probe.kind = "catchall" /\ probe.done
    /\ probe.pattern = <<"/","d","o","c","s","/","*">>
    /\ probe.path = <<"/","d","o","c","s","/","a","/","b">>
    /\ probe.matches

\* C6: a run of the handler on a path of more than one character that ends
\* with '/' strips that one '/', replaces the current entry by the stripped
\* path with the same search and hash, adds no entry, and gives the stripped
\* path to find; a run on any other path leaves the location as it is.
C6_TrailingSlashRewrite ==
    lastRun.ran =>
        IF Len(lastRun.read.pathname) > 1 /\ EndsWith(lastRun.read.pathname, <<"/">>)
        THEN /\ lastRun.rewrites
             /\ lastRun.sanitizedPath = SliceEnd(lastRun.read.pathname, 1)
             /\ lastRun.url = [pathname |-> SliceEnd(lastRun.read.pathname, 1),
                               search |-> lastRun.read.search,
                               hash |-> lastRun.read.hash]
             /\ lastRun.entries = 0
             /\ lastRun.matched = FindRoute(children, SliceEnd(lastRun.read.pathname, 1))
        ELSE /\ ~lastRun.rewrites
             /\ lastRun.url = lastRun.read
             /\ lastRun.entries = 0

\* C6, its case: '/login/?a=1#top' was rewritten and matched as '/login'
C6_Witness ==
    /\ lastRun.ran
    /\ lastRun.read.pathname = <<"/","l","o","g","i","n","/">>
    /\ lastRun.read.search = <<"?","a","=","1">>
    /\ lastRun.read.hash = <<"#","t","o","p">>
    /\ Location = lastRun.url
    /\ Location.pathname = <<"/","l","o","g","i","n">>
    /\ lastRun.matched = 2

\* C7: a run of the handler that follows another run of the same Router with
\* no change of the location in between calls setCurrentRoute not.
C7_SecondRunSetsNothing ==
    (lastRun.ran /\ lastRun.unchanged) => ~lastRun.sets

\* C8: at most one handler is registered for popstate and at most one for
\* hashchange, none when the Router is not mounted, and no event runs more
\* than one handler.
C8_OneListener ==
    /\ Len(popstateListeners) <= 1
    /\ Len(hashchangeListeners) <= 1
    /\ ~mounted => popstateListeners = <<>> /\ hashchangeListeners = <<>>
    /\ lastRun.nth <= 1
    /\ lastClick.runs <= 1

\* C8, its case: the Router is mounted again after an unmount, its effect has
\* run a second time, and a click has run its one handler
C8_Witness ==
    /\ mounted
    /\ effectHandler = 2
    /\ popstateListeners = <<2>>
    /\ hashchangeListeners = <<2>>
    /\ lastClick.clicked
    /\ lastClick.runs = 1
    /\ Len(history) = 2

\* C9: handleClick prevents the default, calls pushState once, which makes its
\* target the current and last entry, and the handler the event then runs reads
\* the target as location (and leaves it with its path sanitized).
C9_ClickPushesThenNotifies ==
    lastClick.clicked =>
        /\ lastClick.prevented
        /\ lastClick.pushed = 1
        /\ index = Len(history)
        /\ lastClick.runs = 0 => Location = ResolveUrl(lastClick.to)
        /\ lastClick.runs > 0 =>
              /\ lastClick.read = ResolveUrl(lastClick.to)
              /\ Location = [ResolveUrl(lastClick.to) EXCEPT
                                !.pathname = SanitizePath(ResolveUrl(lastClick.to).pathname)]

\* C9, its case: a click on a Link to '/users/2' while the location was another
\* one ran the handler, which read '/users/2' and set the state
C9_Witness ==
    /\ lastClick.clicked
    /\ lastClick.to = <<"/","u","s","e","r","s","/","2">>
    /\ lastClick.runs = 1
    /\ history[1] # Location
    /\ lastRun.read = Location
    /\ lastRun.sets

\* C10: the query object has, for each key, the value of its one entry, or the
\* array of the values of its n >= 2 entries in their order, and no property
\* for a key with no entry; no entry gives the empty object.
C10_QueryObject ==
    (probe.kind = "query" /\ probe.done) =>
        /\ \A k \in QueryKeys :
              LET values == ValuesOf(probe.entries, k) IN
              /\ Len(values) = 0 => k \notin DOMAIN probe.query
              /\ Len(values) = 1 =>
                    k \in DOMAIN probe.query /\ probe.query[k] = StringValue(values[1])
              /\ Len(values) >= 2 =>
                    /\ k \in DOMAIN probe.query
                    /\ probe.query[k] =
                          ArrayValue([i \in 1..Len(values) |-> StringValue(values[i])])
        /\ probe.entries = <<>> => probe.query = EmptyObject

\* C11: the scroll effect has scrolled only to a fragment that is not empty and
\* is the id of an element of the document, and only as an effect of the render
\* of the state that holds this fragment: until the next render the state and
\* the rendered element have the fragment scrolled to. A fragment that is the
\* id of no element is scrolled to never.
C11_ScrollOnlyAfterRender ==
    /\ scrolledTo # Undefined =>
          /\ mounted
          /\ scrolledTo # <<>>
          /\ scrolledTo \in ElementIds
          /\ fragmentDep = scrolledTo
          /\ ~effectPending =>
                /\ currentRoute.fragment = scrolledTo
                /\ rendered = RenderElement(currentRoute)
                /\ rendered.fragment = scrolledTo
    /\ (mounted /\ ~effectPending /\ currentRoute.fragment \notin ElementIds) =>
          scrolledTo = Undefined

\* C11, its case: after '/users/1' a click on the Link to '/users/1#top' has
\* replaced the state, the state was rendered and the effect has scrolled to 'top'
C11_Witness ==
    /\ scrolledTo = <<"t","o","p">>
    /\ ~effectPending
    /\ Len(history) = 2
    /\ history[1].hash = <<>>
    /\ rendered.component = "User"
    /\ rendered.fragment = <<"t","o","p">>

\* C11, its other case: the state with the fragment 'end', the id of no element,
\* was rendered and its effects have run
C11_NoElement ==
    /\ mounted
    /\ ~effectPending
    /\ currentRoute.fragment = <<"e","n","d">>
    /\ fragmentDep = <<"e","n","d">>
    /\ scrolledTo = Undefined

\* the fragment of the location the last run of the handler read
ReadFragment == ParsedFragment(lastRun.read.hash)

\* the state the effects of the render before the last one have run with: the
\* one the registered handler has captured
FlushedRoute == handlers[effectHandler].currentRoute

\* the effects of the last render run in this step
EffectsRun == mounted /\ effectPending /\ mounted' /\ ~effectPending'

\* the effects of the last render run in this step, and they have run before
EffectsRunAgain == EffectsRun /\ effectHandler # 0

\* what a scroll attempt for the fragment f leaves
ScrollAttempt(f) == IF f \in ElementIds THEN f ELSE Undefined

\* C12: a run of the handler that finds the Route of the snapshot it compares
\* with, for a location with another fragment, calls setCurrentRoute with a
\* snapshot of the same route and component and the fragment of the location;
\* and when a state with the route of the state before it and another fragment
\* has been rendered, its effects make a scroll attempt for its fragment.
C12_FragmentOnlyNavigation ==
    /\ [](  ( /\ lastRun.ran /\ lastRun.matched # 0
              /\ children[lastRun.matched].path = lastRun.captured.route
              /\ ReadFragment # lastRun.captured.fragment )
           => /\ lastRun.sets
              /\ lastRun.value.route = lastRun.captured.route
              /\ lastRun.value.component = lastRun.captured.component
              /\ lastRun.value.fragment = ReadFragment )
    /\ [][ ( /\ EffectsRunAgain
             /\ FlushedRoute.route = currentRoute.route
             /\ FlushedRoute.fragment # currentRoute.fragment )
          => /\ fragmentDep' = currentRoute.fragment
             /\ scrolledTo' = ScrollAttempt(currentRoute.fragment) ]_vars

\* C12, its case: at '/users/1' the Link to '/users/1#top' was clicked; the
\* state was replaced by one with the same route and the fragment 'top', it was
\* rendered, and its effects have scrolled to 'top'
C12_Witness ==
    /\ mounted /\ ~effectPending
    /\ index = 2
    /\ history[1] = ResolveUrl(<<"/","u","s","e","r","s","/","1">>)
    /\ Location = ResolveUrl(<<"/","u","s","e","r","s","/","1","#","t","o","p">>)
    /\ currentRoute.route = <<"/","u","s","e","r","s","/",":","i","d">>
    /\ currentRoute.component = "User"
    /\ currentRoute.fragment = <<"t","o","p">>
    /\ FlushedRoute = currentRoute
    /\ scrolledTo = <<"t","o","p">>
    /\ updateQueue = <<>>

\* this step runs the handler: the effects run, or an event is delivered to a
\* registered handler (after a change of the location, or from the queue)
HandlerRuns ==
    \/ EffectsRun
    \/ /\ index' # index \/ history' # history
       /\ lastRun'.ran /\ ~lastRun'.locationChanged
    \/ Len(events') < Len(events) /\ hashchangeListeners # <<>>

C13_FirstMatch ==
    /\ lastRun.ran
    /\ lastRun.captured = InitialRoute
    /\ lastRun.matched # 0
    /\ lastRun.sets
    /\ updateQueue = <<lastRun.value>>

\* C14: once the notifications have been processed (the last run of the
\* handler read the current location, every update is rendered and the effects
\* have run) and the location matches a Route, the state has the path of that
\* Route as route and the fragment of the location as fragment, whatever
\* handlers, subscribed before or after the renders, the notifications ran.
C14_LastLocationWins ==
    ( /\ mounted /\ lastRun.ran /\ ~lastRun.locationChanged
      /\ updateQueue = <<>> /\ ~effectPending
      /\ CurrentMatch # 0 )
    => /\ currentRoute.route = children[CurrentMatch].path
       /\ currentRoute.component = children[CurrentMatch].component
       /\ currentRoute.fragment = ParsedFragment(Location.hash)
       /\ rendered.component = children[CurrentMatch].component
       /\ rendered.fragment = ParsedFragment(Location.hash)

\* C14, its case: loaded at '/users/1', forward to '/login' by a click and back
\* again; all is processed and the state is that of '/users/1'
C14_Witness ==
    /\ Settled
    /\ index = 1 /\ Len(history) = 2
    /\ history[2].pathname = <<"/","l","o","g","i","n">>
    /\ Location.pathname = <<"/","u","s","e","r","s","/","1">>
    /\ currentRoute.route = <<"/","u","s","e","r","s","/",":","i","d">>
    /\ currentRoute.fragment = <<>>

\* C14, on its way: a handler subscribed before the last render has run twice
\* on one location, the state it compares with being no more the current one
C14_StaleHandlerRuns ==
    /\ mounted /\ effectPending
    /\ lastRun.ran /\ lastRun.unchanged
    /\ lastRun.captured # currentRoute
    /\ lastRun.captured # InitialRoute
    /\ lastRun.matched # 0

\* C15: when the effects run for a rendered state that replaced the one they
\* ran for before, and its fragment is the id of an element, they scroll to
\* that element, also when the replacement changed the route and kept the
\* fragment.
C15_ReplacementScrolls ==
    [][ ( /\ EffectsRunAgain
          /\ FlushedRoute # currentRoute
          /\ currentRoute.fragment \in ElementIds )
        => scrolledTo' = currentRoute.fragment ]_vars

\* a string without its one trailing '/', when it has one and more characters
WithoutTrailingSlash(s) ==
    IF Len(s) > 1 /\ s[Len(s)] = "/" THEN SubSeq(s, 1, Len(s) - 1) ELSE s

\* C16: the path '/' of a Route matches exactly the normalized path '/'; a path
\* that is neither '/', dynamic nor catch-all matches exactly the normalized
\* path that is equal to it, character by character, once its one trailing '/'
\* is removed.
C16_RootAndExact ==
    (probe.kind = "exact" /\ probe.done) =>
        ( probe.matches <=>
            IF probe.pattern = <<"/">>
            THEN WithoutTrailingSlash(probe.path) = <<"/">>
            ELSE WithoutTrailingSlash(probe.path) = WithoutTrailingSlash(probe.pattern) )

\* C16, its case: the location '/login/' is normalized to '/login', which the
\* path '/login/' of a Route matches
C16_Witness ==
    /\ probe.kind = "exact" /\ probe.done
    /\ probe.pattern = <<"/","l","o","g","i","n","/">>
    /\ probe.path = <<"/","l","o","g","i","n","/">>
    /\ probe.matches

\* C17: a run of the handler adds and removes no history entry and leaves the
\* location it read, but for the one trailing '/' of its pathname; the history
\* entries change only by a click on a Link, which puts one entry after the
\* current one, or by that rewrite of the current entry; and the Routes given
\* to the Router change never.
C17_OnlyLinkAddsEntries ==
    /\ [](lastRun.ran =>
            /\ lastRun.entries = 0
            /\ lastRun.url = [lastRun.read EXCEPT
                                 !.pathname = WithoutTrailingSlash(lastRun.read.pathname)])
    /\ [][ /\ children' = children
           /\ lastClick'.clicked =>
                 /\ index' = index + 1
                 /\ Len(history') = index + 1
                 /\ SubSeq(history', 1, index) = SubSeq(history, 1, index)
           /\ (history' # history /\ ~lastClick'.clicked) =>
                 /\ lastRun'.ran /\ lastRun'.rewrites
                 /\ history' = [history EXCEPT ![index'] = lastRun'.url]
                 /\ lastRun'.url.search = history[index'].search
                 /\ lastRun'.url.hash = history[index'].hash ]_vars

\* C17, its case: the handler has rewritten '/login/' to '/login' in the one
\* entry there was; then a click on a Link has added the second entry and the
\* handler it ran has added none
C17_Witness ==
    /\ Len(history) = 2 /\ index = 2
    /\ history[1] = ResolveUrl(<<"/","l","o","g","i","n","?","a","=","1","#","t","o","p">>)
    /\ lastClick.clicked /\ lastClick.pushed = 1 /\ lastClick.runs = 1
    /\ lastRun.ran /\ lastRun.entries = 0
    /\ lastRun.url = Location
    /\ children = Routes

\* C18: a step calls setCurrentRoute at most once; and when the effects run
\* for the render of the state the last run of the handler gave, the location
\* being the one that run left, the run of the handler they make calls
\* setCurrentRoute not, so that with no update queued nothing is left to
\* render and no effect is left to run.
C18_LoopStabilizes ==
    [][ /\ Len(updateQueue') <= Len(updateQueue) + 1
        /\ ( /\ EffectsRun
              /\ lastRun.ran /\ lastRun.sets /\ ~lastRun.locationChanged
              /\ currentRoute = lastRun.value )
           => /\ lastRun'.ran /\ ~lastRun'.sets
              /\ lastRun'.captured = currentRoute
              /\ currentRoute' = currentRoute
              /\ updateQueue' = updateQueue
              /\ updateQueue = <<>> => (updateQueue' = <<>> /\ ~effectPending') ]_vars

\* C18, its case: a click on the Link to '/login' has replaced the state, the
\* state was rendered, and the run of the handler its effects made has
\* replaced nothing: nothing is left to do
C18_Witness ==
    /\ Settled
    /\ index = 2
    /\ Location = ResolveUrl(<<"/","l","o","g","i","n">>)
    /\ currentRoute.route = <<"/","l","o","g","i","n">>
    /\ lastRun.unchanged
    /\ lastRun.captured = currentRoute
    /\ ~lastRun.sets

\* the names of the ':name' segments of the path of a Route
NamesOf(path) ==
    { SliceFrom(Segments(path)[i], 1) :
        i \in { j \in 1..Len(Segments(path)) : Segments(path)[j][1] = ":" } }

\* the snapshot has the component of the first of the routes with its route as
\* path, and path parameters for exactly the names of that path
Consistent(snapshot, routes) ==
    /\ \E i \in 1..Len(routes) : routes[i].path = snapshot.route
    /\ \A i \in 1..Len(routes) :
          ( /\ routes[i].path = snapshot.route
            /\ \A j \in 1..(i - 1) : routes[j].path # snapshot.route )
          => /\ snapshot.component = routes[i].component
             /\ DOMAIN snapshot.path = NamesOf(routes[i].path)

\* C19: every snapshot the handler gives to setCurrentRoute, and so every state
\* but the initial one, has the component of the first Route whose path is its
\* route, and path parameters for exactly the ':name' segments of that path
\* (none for '/', a catch-all and an exact path).
C19_SnapshotConsistent ==
    /\ (probe.kind = "snapshot" /\ probe.done /\ probe.snapshot # InitialRoute) =>
          Consistent(probe.snapshot, probe.routes)
    /\ currentRoute # InitialRoute => Consistent(currentRoute, children)
    /\ \A i \in 1..Len(updateQueue) : Consistent(updateQueue[i], children)

\* C19, its case: of two Routes with the path '/users/:id' the handler has
\* taken the first for '/users/42'
C19_Witness ==
    /\ probe.kind = "snapshot" /\ probe.done
    /\ Len(probe.routes) = 2
    /\ probe.routes[1].path = <<"/","u","s","e","r","s","/",":","i","d">>
    /\ probe.routes[2].path = <<"/","u","s","e","r","s","/",":","i","d">>
    /\ probe.snapshot.component = "View1"
    /\ probe.snapshot.path = [k \in {<<"i","d">>} |-> <<"4","2">>]

\* C19, its other case: a catch-all path has given a snapshot with no parameter
C19_CatchAllSnapshot ==
    /\ probe.kind = "snapshot" /\ probe.done
    /\ probe.snapshot.route = <<"/","d","o","c","s","/","*">>
    /\ probe.snapshot.path = EmptyObject

============================================================================
